---- MODULE Spec2Model ----
(***************************************************************************)
(* Provider failover orchestration of nodemail                             *)
(* (src/core/FailoverManager.ts, class FailoverManager).                   *)
(*                                                                         *)
(* One sendWithFailover call is a sequential asynchronous procedure.  Its  *)
(* suspension points are the awaits of provider.send and of delay; the     *)
(* code between two awaits runs without interruption.  The actions below   *)
(* are those pieces, with the chain loop cut once more at its loop head.   *)
(*                                                                         *)
(* Abstracted: durationMs and timestamp (wall clock readings), and the     *)
(* content of the message, which no line of the orchestrator reads.        *)
(*                                                                         *)
(* Two more classes are modelled further down, each with a specification   *)
(* of its own: the test double MailFake (src/testing/MailFake.ts) and      *)
(* QueueManager (src/queue/QueueManager.ts).                               *)
(***************************************************************************)
EXTENDS Integers, Sequences, FiniteSets, TLC

VARIABLES
    call,      \* per call: the locals of sendWithFailover / tryProvider
    script,    \* per transport: success of its 1st, 2nd, ... send of a call
    style,     \* per transport: how it fails (returns or throws, and the text)
    resolver,  \* per name: what getProvider(name) does
    fake,      \* the fields of a MailFake
    queueManager  \* the fields of a QueueManager and the calls made on it

vars == <<call, script, style, resolver, fake, queueManager>>

----------------------------------------------------------------------------
(* Bounds of the model *)

MaxChain == 2
MaxRetries == 2

----------------------------------------------------------------------------
(* Values *)

\* JavaScript's undefined, for optional string fields
UNDEF == "<undefined>"

Names == {"sendgrid", "ses", "smtp"}

\* The mailer names a call is made for (the code compares names only by ===)
PrimaryNames == {"sendgrid"}

\* Texts a failing transport reports or throws; "" is falsy in JavaScript
ErrorTexts == {"", "down"}

Calls == {1, 2}

\* Values of retryDelay / failoverDelay when configured (ms)
RetryDelayMs == 100
FailoverDelayMs == 200

\* chain: string[]
Chains == UNION {[1..n -> Names] : n \in 0..MaxChain}

\* FailoverConfig: `has` holds the optional properties that are present
FailoverConfigs ==
    { [chain |-> ch, has |-> h, maxRetriesPerProvider |-> m,
       retryDelay |-> rd, failoverDelay |-> fd, onFailover |-> cb] :
        ch \in Chains,
        h \in SUBSET {"maxRetriesPerProvider", "retryDelay", "failoverDelay", "onFailover"},
        m \in (-1)..MaxRetries, rd \in {0, RetryDelayMs}, fd \in {0, FailoverDelayMs},
        cb \in {"none", "returns", "throws"} }

\* One representative per behaviour: an absent property carries a fixed
\* placeholder, and a present delay is positive (0 is the default)
WellFormedConfig(cfg) ==
    /\ ("maxRetriesPerProvider" \in cfg.has) \/ cfg.maxRetriesPerProvider = 0
    /\ ("retryDelay" \in cfg.has) <=> cfg.retryDelay > 0
    /\ ("failoverDelay" \in cfg.has) <=> cfg.failoverDelay > 0
    /\ ("onFailover" \in cfg.has) <=> cfg.onFailover # "none"

\* How a transport fails: send resolves to {success: false, error?} or rejects
\* with an Error whose message is `error`
FailStyles ==
    {[throws |-> FALSE, error |-> UNDEF]} \cup
    {[throws |-> t, error |-> e] : t \in BOOLEAN, e \in ErrorTexts}

UnsetStyle == [throws |-> FALSE, error |-> "<unset>"]

\* messageId a transport reports on success
MessageIdOf(name) ==
    CASE name = "sendgrid" -> "msg-1"
      [] name = "ses" -> "ses-1"
      [] OTHER -> "smtp-1"

----------------------------------------------------------------------------
(* JavaScript operators used by the code *)

\* a ?? b on an optional property of the config
Nullish(cfg, key, dflt) == IF key \in cfg.has THEN cfg[key] ELSE dflt

\* truthiness of an optional string
Truthy(str) == str # UNDEF /\ str # ""

\* a ?? b on an optional string
NullishStr(str, dflt) == IF str = UNDEF THEN dflt ELSE str

----------------------------------------------------------------------------
(* Records of the code *)

\* MailResponse of a send that succeeded / that reported a failure
OkResponse(name) == [success |-> TRUE, messageId |-> MessageIdOf(name), error |-> UNDEF]
FailResponse(err) == [success |-> FALSE, messageId |-> UNDEF, error |-> err]

\* tryProvider: let lastResponse = { success: false, error: 'No attempts made' }
NoAttempts == [success |-> FALSE, messageId |-> UNDEF, error |-> "No attempts made"]

NoResult ==
    [success |-> FALSE, messageId |-> UNDEF, error |-> UNDEF, provider |-> UNDEF,
     failoverUsed |-> FALSE, failoverAttempts |-> <<>>]

\* MailOptions, as far as two messages need to differ
Messages ==
    {[to |-> t, subject |-> s] : t \in {"a@example.com", "b@example.com"},
                                 s \in {"Welcome", "Re: Welcome"}}

\* The message of a call when nothing is said about it
SomeMessage == [to |-> "a@example.com", subject |-> "Welcome"]

\* new MailFake(): no message stored, no failure simulated; calls is the
\* history of the calls made on it, with what send returned
NewMailFake ==
    [sentMessages |-> <<>>, failureCount |-> 0, failuresSent |-> 0, calls |-> <<>>]

\* The callers of a QueueManager that can be in flight at once
Callers == {1, 2}

\* config.driver
DriverKinds == {"sync", "bull", "bullmq", "unsupported"}

\* queue(), later(), at() and process(): each begins with await this.getDriver()
QueueOperations == {"queue", "later", "at", "process"}

\* new QueueManager(config): driver = null, initialized = false. A driver is
\* named by its number of creation, 0 is null. instances counts the drivers
\* created so far, made those created since construction or the last close(),
\* ops the operations and closes begun; at[o] is where caller o stands,
\* doing[o] the operation it is in, got[o] the driver getDriver returned to it.
NewQueueManager(kind) ==
    [kind |-> kind, driver |-> 0, initialized |-> FALSE, made |-> 0, instances |-> 0,
     ops |-> 0,
     at |-> [o \in Callers |-> "idle"], doing |-> [o \in Callers |-> "none"],
     got |-> [o \in Callers |-> 0]]

\* No MailFake and no QueueManager take part in a sendWithFailover call
AtRest ==
    /\ fake = NewMailFake
    /\ queueManager = NewQueueManager("sync")

\* A call that has not been made
NewCall(primaryName, cfg) ==
    [pc |-> "new", primaryName |-> primaryName, cfg |-> cfg,
     curName |-> primaryName, idx |-> 0, attempt |-> 0, lastResponse |-> NoAttempts,
     attempts |-> <<>>, events |-> <<>>, result |-> NoResult, threw |-> FALSE,
     sent |-> [n \in Names |-> 0], trace |-> <<>>,
     options |-> SomeMessage, received |-> SomeMessage, handed |-> <<>>]

\* The second call slot, unused
Off(primaryName, cfg) == [NewCall(primaryName, cfg) EXCEPT !.pc = "off"]

----------------------------------------------------------------------------
(* sendWithFailover and tryProvider, as functions of the call's locals s *)

MaxRetriesOf(cfg) == Nullish(cfg, "maxRetriesPerProvider", 1)
RetryDelayOf(cfg) == Nullish(cfg, "retryDelay", 0)
FailoverDelayOf(cfg) == Nullish(cfg, "failoverDelay", 0)

\* History of what the call did to its collaborators, in order
Log(s, op, name, n) ==
    [s EXCEPT !.trace = Append(@, [op |-> op, name |-> name, pos |-> s.idx, n |-> n])]

\* The promise of sendWithFailover rejects
Throw(s) == [s EXCEPT !.pc = "done", !.threw = TRUE]

\* The promise of sendWithFailover resolves to res
Return(s, res) == Log([s EXCEPT !.pc = "done", !.result = res], "return", res.provider, 0)

\* Mutant: the primary's success is reported as a failover
PrimaryResultAsFailover(s) ==
    [success |-> s.lastResponse.success, messageId |-> s.lastResponse.messageId,
     error |-> s.lastResponse.error, provider |-> s.primaryName,
     failoverUsed |-> TRUE, failoverAttempts |-> s.attempts]

\* { ...primaryResult, provider: primaryName, failoverUsed: false, failoverAttempts }
PrimaryResult(s) ==
    [success |-> s.lastResponse.success, messageId |-> s.lastResponse.messageId,
     error |-> s.lastResponse.error, provider |-> s.primaryName,
     failoverUsed |-> FALSE, failoverAttempts |-> s.attempts]

\* Mutant: a backup's success is reported under the primary's name
ChainResultAsPrimary(s) ==
    [success |-> s.lastResponse.success, messageId |-> s.lastResponse.messageId,
     error |-> s.lastResponse.error, provider |-> s.primaryName,
     failoverUsed |-> TRUE, failoverAttempts |-> s.attempts]

\* { ...chainResult, provider: chainName, failoverUsed: true, failoverAttempts }
ChainResult(s) ==
    [success |-> s.lastResponse.success, messageId |-> s.lastResponse.messageId,
     error |-> s.lastResponse.error, provider |-> s.curName,
     failoverUsed |-> TRUE, failoverAttempts |-> s.attempts]

\* Mutant: the exhaustion result passes on the last response's error
ExhaustedResultLastError(s) ==
    [success |-> FALSE, messageId |-> UNDEF, error |-> s.lastResponse.error,
     provider |-> s.primaryName, failoverUsed |-> TRUE, failoverAttempts |-> s.attempts]

\* All providers exhausted
ExhaustedResult(s) ==
    [success |-> FALSE, messageId |-> UNDEF, error |-> "All providers failed",
     provider |-> s.primaryName, failoverUsed |-> TRUE, failoverAttempts |-> s.attempts]

\* Mutant: the chain loop does not return when a backup succeeded
TryReturnsPrimaryOnly(s) ==
    IF s.lastResponse.success /\ s.idx = 0
    THEN Return(s, PrimaryResult(s))
    ELSE [s EXCEPT !.pc = "chain", !.idx = @ + 1]

\* tryProvider has returned s.lastResponse to sendWithFailover:
\* if (result.success) return {...}; otherwise on to the (next) chain entry
TryReturns(s) ==
    IF s.lastResponse.success
    THEN Return(s, IF s.idx = 0 THEN PrimaryResult(s) ELSE ChainResult(s))
    ELSE [s EXCEPT !.pc = "chain", !.idx = @ + 1]

\* Mutant: a retry is marked in the subject of the message
InvokeSendMarked(s) ==
    Log([s EXCEPT !.pc = "send", !.sent[s.curName] = @ + 1,
                  !.handed = Append(@, IF s.attempt > 0
                                       THEN [s.options EXCEPT !.subject = "Re: Welcome"]
                                       ELSE s.options)],
        "send", s.curName, s.attempt)

\* provider.send(options) is invoked and awaited
InvokeSend(s) ==
    Log([s EXCEPT !.pc = "send", !.sent[s.curName] = @ + 1, !.handed = Append(@, s.options)],
        "send", s.curName, s.attempt)

\* Mutant: the retry delay is awaited before the first attempt too
LoopHeadDelaysFirst(s) ==
    IF s.attempt < MaxRetriesOf(s.cfg)
    THEN IF s.attempt >= 0 /\ RetryDelayOf(s.cfg) > 0
         THEN Log([s EXCEPT !.pc = "retryDelay"], "delay", "retry", RetryDelayOf(s.cfg))
         ELSE InvokeSend(s)
    ELSE TryReturns(s)

\* Mutant: the retry loop runs while attempt <= maxRetries
LoopHeadOffByOne(s) ==
    IF s.attempt <= MaxRetriesOf(s.cfg)
    THEN IF s.attempt > 0 /\ RetryDelayOf(s.cfg) > 0
         THEN Log([s EXCEPT !.pc = "retryDelay"], "delay", "retry", RetryDelayOf(s.cfg))
         ELSE InvokeSend(s)
    ELSE TryReturns(s)

\* Mutant: the loop body runs once before the bound is looked at (do ... while)
LoopHeadAtLeastOnce(s) ==
    IF s.attempt = 0 \/ s.attempt < MaxRetriesOf(s.cfg)
    THEN IF s.attempt > 0 /\ RetryDelayOf(s.cfg) > 0
         THEN Log([s EXCEPT !.pc = "retryDelay"], "delay", "retry", RetryDelayOf(s.cfg))
         ELSE InvokeSend(s)
    ELSE TryReturns(s)

\* for (attempt < maxRetries) { if (attempt > 0 && retryDelay > 0) await delay; ... }
LoopHead(s) ==
    IF s.attempt < MaxRetriesOf(s.cfg)
    THEN IF s.attempt > 0 /\ RetryDelayOf(s.cfg) > 0
         THEN Log([s EXCEPT !.pc = "retryDelay"], "delay", "retry", RetryDelayOf(s.cfg))
         ELSE InvokeSend(s)
    ELSE TryReturns(s)

\* Mutant: the attempt counter is not reset for the next provider
BeginTryKeepsCount(s, name) ==
    LoopHead([s EXCEPT !.curName = name, !.lastResponse = NoAttempts])

\* tryProvider(provider, name, ...) is entered
BeginTry(s, name) ==
    LoopHead([s EXCEPT !.curName = name, !.attempt = 0, !.lastResponse = NoAttempts])

\* const detail = { mailer, success }; if (!success && error) detail.error = error
AttemptDetail(name, resp) ==
    [mailer |-> name, success |-> resp.success,
     error |-> IF ~resp.success /\ Truthy(resp.error) THEN resp.error ELSE UNDEF]

\* catch (err): attempts.push({ mailer, success: false, error: errorMessage })
CaughtDetail(name, errorMessage) ==
    [mailer |-> name, success |-> FALSE, error |-> errorMessage]

\* Mutant: the record is put in front of the list (unshift)
PushAttemptFront(s, detail) ==
    Log([s EXCEPT !.attempts = <<detail>> \o @], "sendDone", detail.mailer,
        IF detail.success THEN 1 ELSE 0)

\* attempts.push(detail)
PushAttempt(s, detail) ==
    Log([s EXCEPT !.attempts = Append(@, detail)], "sendDone", detail.mailer,
        IF detail.success THEN 1 ELSE 0)

\* Mutant: the retry loop lacks the early return on success
SendResolvedNoReturn(s, resp) ==
    LET s1 == PushAttempt([s EXCEPT !.lastResponse = resp], AttemptDetail(s.curName, resp))
    IN  LoopHead([s1 EXCEPT !.attempt = @ + 1])

\* The awaited send resolved to resp
SendResolved(s, resp) ==
    LET s1 == PushAttempt([s EXCEPT !.lastResponse = resp], AttemptDetail(s.curName, resp))
    IN  IF resp.success THEN TryReturns(s1) ELSE LoopHead([s1 EXCEPT !.attempt = @ + 1])

\* Mutant: a send that throws ends the retries on this transport
SendRejectedGivesUp(s, errorMessage) ==
    TryReturns(PushAttempt([s EXCEPT !.lastResponse = FailResponse(errorMessage)],
                           CaughtDetail(s.curName, errorMessage)))

\* The awaited send rejected with an Error whose message is errorMessage
SendRejected(s, errorMessage) ==
    LET s1 == PushAttempt([s EXCEPT !.lastResponse = FailResponse(errorMessage)],
                          CaughtDetail(s.curName, errorMessage))
    IN  LoopHead([s1 EXCEPT !.attempt = @ + 1])

\* Mutant: chain entries naming the primary are tried like any other
SkipsNothing(s, chainName) == FALSE

\* Mutant: only a leading chain entry is compared with the primary
SkipsPrimaryOnce(s, chainName) == chainName = s.primaryName /\ s.idx = 1

\* if (chainName === primaryName) continue
SkipsPrimary(s, chainName) == chainName = s.primaryName

\* Mutant: attemptIndex is the index of the last record, counted from 0
FailoverEventZeroBased(s, chainName) ==
    LET lastFailed == s.attempts[Len(s.attempts)]
    IN  [failedMailer |-> lastFailed.mailer,
         error |-> NullishStr(lastFailed.error, "Unknown error"),
         nextMailer |-> chainName,
         attemptIndex |-> Len(s.attempts) - 1]

\* Mutant: every event blames the primary
FailoverEventBlamesPrimary(s, chainName) ==
    LET lastFailed == s.attempts[Len(s.attempts)]
    IN  [failedMailer |-> s.primaryName,
         error |-> NullishStr(lastFailed.error, "Unknown error"),
         nextMailer |-> chainName,
         attemptIndex |-> Len(s.attempts)]

\* The FailoverEvent handed to onFailover
FailoverEventOf(s, chainName) ==
    LET lastFailed == s.attempts[Len(s.attempts)]
    IN  [failedMailer |-> lastFailed.mailer,
         error |-> NullishStr(lastFailed.error, "Unknown error"),
         nextMailer |-> chainName,
         attemptIndex |-> Len(s.attempts)]

\* Mutant: the callback is called outside any try/catch
PropagateCallback(s) == Throw(s)

\* Mutant: an error of the callback ends the failover
AbortOnCallbackError(s) == Return(s, ExhaustedResult(s))

\* catch { /* Callback errors must not abort failover */ }
CatchCallback(s) == s

\* if (onFailover && lastFailed) { try { onFailover({...}) } catch {} }
FireOnFailover(s, chainName) ==
    IF s.cfg.onFailover # "none" /\ Len(s.attempts) > 0
    THEN LET ev == FailoverEventOf(s, chainName)
             s1 == Log([s EXCEPT !.events = Append(@, ev)], "onFailover", chainName,
                       ev.attemptIndex)
         IN  IF s.cfg.onFailover = "throws" THEN CatchCallback(s1) ELSE s1
    ELSE s

\* Mutant: the callback is dispatched before getProvider is tried
ResolveFailedNotified(s, chainName) ==
    [FireOnFailover(Log(s, "resolve", chainName, 0), chainName) EXCEPT !.idx = @ + 1]

\* Mutant: an entry that does not resolve is recorded as a failed attempt
ResolveFailedRecorded(s, chainName) ==
    [Log(s, "resolve", chainName, 0) EXCEPT
        !.attempts = Append(@, CaughtDetail(chainName, "down")), !.idx = @ + 1]

\* try { chainProvider = getProvider(chainName) } catch { continue }
ResolveFailed(s, chainName) ==
    [Log(s, "resolve", chainName, 0) EXCEPT !.idx = @ + 1]

\* Mutant: getProvider is called once for the callback and once more for the try
ResolvedAgain(s, chainName) ==
    LET s1 == FireOnFailover(Log(s, "resolve", chainName, 1), chainName)
        s2 == Log(s1, "resolve", chainName, 1)
    IN  IF s1.pc = "done" THEN s1
        ELSE IF FailoverDelayOf(s.cfg) > 0
        THEN Log([s2 EXCEPT !.pc = "failoverDelay"], "delay", "failover",
                 FailoverDelayOf(s.cfg))
        ELSE BeginTry(s2, chainName)

\* The chain entry resolved: callback, failoverDelay, tryProvider
Resolved(s, chainName) ==
    LET s1 == FireOnFailover(Log(s, "resolve", chainName, 1), chainName)
    IN  IF s1.pc = "done" THEN s1
        ELSE IF FailoverDelayOf(s.cfg) > 0
        THEN Log([s1 EXCEPT !.pc = "failoverDelay"], "delay", "failover",
                 FailoverDelayOf(s.cfg))
        ELSE BeginTry(s1, chainName)

----------------------------------------------------------------------------
(* The collaborators: transports and the resolver *)

\* The transport's k-th send of a call succeeds or fails as the script says;
\* a send the script does not cover yet may go either way
SendOutcomes(name, k) ==
    IF k <= Len(script[name]) THEN {script[name][k]} ELSE BOOLEAN

\* A transport fails the same way each time it fails
StylesOf(name) ==
    IF style[name] = UnsetStyle THEN FailStyles ELSE {style[name]}

\* getProvider(name) returns a provider or throws, the same for the same name
ResolveOutcomes(name) ==
    IF resolver[name] = "unknown" THEN {"ok", "throws"} ELSE {resolver[name]}

Extend(seq, k, v) == IF k <= Len(seq) THEN seq ELSE Append(seq, v)

----------------------------------------------------------------------------
(* Actions: the pieces of one call between two suspension points *)

\* Mutant: the attempt list is a field of the manager, emptied by each call
CallSharesAttempts(c) ==
    /\ call[c].pc = "new"
    /\ call' = [d \in Calls |->
                   IF d = c THEN BeginTry(call[c], call[c].primaryName)
                   ELSE [call[d] EXCEPT !.attempts = <<>>]]
    /\ UNCHANGED <<script, style, resolver>>
    /\ UNCHANGED <<fake, queueManager>>

\* sendWithFailover is called: defaults, attempts = [], tryProvider(primary)
Call(c) ==
    /\ call[c].pc = "new"
    /\ call' = [call EXCEPT ![c] = BeginTry(call[c], call[c].primaryName)]
    /\ UNCHANGED <<script, style, resolver>>
    /\ UNCHANGED <<fake, queueManager>>

\* The awaited provider.send settles: it resolves to a success
SendSucceeds(c) ==
    LET s == call[c]
        name == s.curName
        k == s.sent[name]
    IN  /\ s.pc = "send"
        /\ TRUE \in SendOutcomes(name, k)
        /\ script' = [script EXCEPT ![name] = Extend(@, k, TRUE)]
        /\ call' = [call EXCEPT ![c] = SendResolved(s, OkResponse(name))]
        /\ UNCHANGED <<style, resolver>>
        /\ UNCHANGED <<fake, queueManager>>

\* The awaited provider.send settles: it resolves to a failure, or rejects
SendFails(c) ==
    LET s == call[c]
        name == s.curName
        k == s.sent[name]
    IN  /\ s.pc = "send"
        /\ FALSE \in SendOutcomes(name, k)
        /\ script' = [script EXCEPT ![name] = Extend(@, k, FALSE)]
        /\ \E st \in StylesOf(name) :
              /\ style' = [style EXCEPT ![name] = st]
              /\ call' = [call EXCEPT ![c] =
                            IF st.throws THEN SendRejected(s, st.error)
                            ELSE SendResolved(s, FailResponse(st.error))]
        /\ UNCHANGED resolver
        /\ UNCHANGED <<fake, queueManager>>

\* The retryDelay timer fires
RetryDelayElapses(c) ==
    /\ call[c].pc = "retryDelay"
    /\ call' = [call EXCEPT ![c] = InvokeSend(call[c])]
    /\ UNCHANGED <<script, style, resolver>>
    /\ UNCHANGED <<fake, queueManager>>

\* The failoverDelay timer fires
FailoverDelayElapses(c) ==
    LET s == call[c]
    IN  /\ s.pc = "failoverDelay"
        /\ call' = [call EXCEPT ![c] = BeginTry(s, s.cfg.chain[s.idx])]
        /\ UNCHANGED <<script, style, resolver>>
        /\ UNCHANGED <<fake, queueManager>>

\* Mutant: the loop is left one index late, which no index reaches
ChainExhaustedLate(c) ==
    LET s == call[c]
    IN  /\ s.pc = "chain"
        /\ s.idx > Len(s.cfg.chain) + 1
        /\ call' = [call EXCEPT ![c] = Return(s, ExhaustedResult(s))]
        /\ UNCHANGED <<script, style, resolver>>
        /\ UNCHANGED <<fake, queueManager>>

\* for (const chainName of failoverConfig.chain): the loop is over
ChainExhausted(c) ==
    LET s == call[c]
    IN  /\ s.pc = "chain"
        /\ s.idx > Len(s.cfg.chain)
        /\ call' = [call EXCEPT ![c] = Return(s, ExhaustedResult(s))]
        /\ UNCHANGED <<script, style, resolver>>
        /\ UNCHANGED <<fake, queueManager>>

\* One iteration of the chain loop, up to its first await or its continue
ChainStep(c) ==
    LET s == call[c]
    IN  /\ s.pc = "chain"
        /\ s.idx <= Len(s.cfg.chain)
        /\ LET chainName == s.cfg.chain[s.idx]
           IN  IF SkipsPrimary(s, chainName)
               THEN /\ call' = [call EXCEPT ![c] = [s EXCEPT !.idx = @ + 1]]
                    /\ UNCHANGED resolver
               ELSE \E r \in ResolveOutcomes(chainName) :
                      /\ resolver' = [resolver EXCEPT ![chainName] = r]
                      /\ call' = [call EXCEPT ![c] =
                                    IF r = "throws" THEN ResolveFailed(s, chainName)
                                    ELSE Resolved(s, chainName)]
        /\ UNCHANGED <<script, style>>
        /\ UNCHANGED <<fake, queueManager>>

Step(c) ==
    \/ Call(c)
    \/ SendSucceeds(c)
    \/ SendFails(c)
    \/ RetryDelayElapses(c)
    \/ FailoverDelayElapses(c)
    \/ ChainStep(c)
    \/ ChainExhausted(c)

----------------------------------------------------------------------------
(* One call *)

InitCollaborators ==
    /\ AtRest
    /\ script = [n \in Names |-> <<>>]
    /\ style = [n \in Names |-> UnsetStyle]
    /\ resolver = [n \in Names |-> "unknown"]

Init ==
    /\ InitCollaborators
    /\ \E p \in PrimaryNames, cfg \in FailoverConfigs :
          /\ WellFormedConfig(cfg)
          /\ call = [c \in Calls |-> IF c = 1 THEN NewCall(p, cfg) ELSE Off(p, cfg)]

Next == \E c \in Calls : Step(c)

Spec == Init /\ [][Next]_vars

----------------------------------------------------------------------------
(* Vocabulary of the properties *)

Done(s) == s.pc = "done"

\* The entries of the history with operation op, in order
Ops(s, op) == SelectSeq(s.trace, LAMBDA e : e.op = op)

\* Positions of the history with operation op
OpIdx(s, op) == {i \in 1..Len(s.trace) : s.trace[i].op = op}

\* Position 0 is the primary, position i >= 1 the i-th chain entry
NameAt(s, pos) == IF pos = 0 THEN s.primaryName ELSE s.cfg.chain[pos]

\* The positions a send was invoked for
Attempted(s) == {s.trace[i].pos : i \in OpIdx(s, "send")}

\* The transport never succeeded on a send so far
AlwaysFailed(name) == \A i \in 1..Len(script[name]) : ~script[name][i]

\* The transport was sent to and its first send succeeded
FirstSucceeded(name) == Len(script[name]) >= 1 /\ script[name][1]

FailedBy(rec, name) == rec.mailer = name /\ ~rec.success

SucceededBy(rec, name) == rec = [mailer |-> name, success |-> TRUE, error |-> UNDEF]

----------------------------------------------------------------------------
(* C1 *)

\* C1: whatever the transports, the resolver and onFailover do (return or
\* throw), a call never rejects: every call that has not returned can take its
\* next step, and a finished call has returned a result carrying its attempts;
\* failure shows only as result.success = FALSE.
C1_NeverThrows ==
    \A c \in Calls :
        LET s == call[c]
        IN  /\ ~s.threw
            /\ s.pc \notin {"done", "off"} => ENABLED Step(c)
            /\ Done(s) =>
                  /\ s.trace[Len(s.trace)].op = "return"
                  /\ s.result.failoverAttempts = s.attempts
                  /\ s.result.provider \in Names

\* A finished call in which a send rejected, getProvider threw and the
\* onFailover callback threw
C1_Witness ==
    LET s == call[1]
    IN  /\ Done(s) /\ ~s.result.success
        /\ s.cfg.onFailover = "throws" /\ Len(s.events) > 0
        /\ \E i \in OpIdx(s, "resolve") : s.trace[i].n = 0
        /\ \E n \in Names : s.sent[n] > 0 /\ style[n].throws

----------------------------------------------------------------------------
(* C2 *)

\* C2: primary fails every send, chain = [A, B], A resolves and its first send
\* succeeds: the result is a success of A with failoverUsed, the attempts are
\* maxRetriesPerProvider failed primary records (one by default) and then one
\* successful record of A, and position B is never resolved nor sent to.
C2_FirstChainSuccess ==
    \A c \in Calls :
        LET s == call[c]
            m == MaxRetriesOf(s.cfg)
        IN  (/\ Done(s)
             /\ Len(s.cfg.chain) = 2
             /\ s.cfg.chain[1] # s.primaryName
             /\ AlwaysFailed(s.primaryName)
             /\ resolver[s.cfg.chain[1]] = "ok"
             /\ FirstSucceeded(s.cfg.chain[1]))
            => LET A == s.cfg.chain[1]
               IN  /\ s.result.success
                   /\ s.result.provider = A
                   /\ s.result.failoverUsed
                   /\ ("maxRetriesPerProvider" \notin s.cfg.has => m = 1)
                   /\ Len(s.result.failoverAttempts) = m + 1
                   /\ \A i \in 1..m : FailedBy(s.result.failoverAttempts[i], s.primaryName)
                   /\ SucceededBy(s.result.failoverAttempts[m + 1], A)
                   /\ \A i \in 1..Len(s.trace) : s.trace[i].pos # 2
                   /\ Len(Ops(s, "resolve")) = 1

C2_Witness ==
    LET s == call[1]
    IN  /\ Done(s) /\ Len(s.cfg.chain) = 2
        /\ s.cfg.chain[1] # s.primaryName /\ s.cfg.chain[2] \notin {s.primaryName, s.cfg.chain[1]}
        /\ AlwaysFailed(s.primaryName) /\ FirstSucceeded(s.cfg.chain[1])
        /\ MaxRetriesOf(s.cfg) = 2
        /\ s.result.provider = s.cfg.chain[1]

----------------------------------------------------------------------------
(* C3 *)

\* Chain positions that differ from the primary and that getProvider resolves
Usable(s) ==
    {i \in 1..Len(s.cfg.chain) :
        s.cfg.chain[i] # s.primaryName /\ resolver[s.cfg.chain[i]] = "ok"}

\* C3: every send of every transport fails and maxRetriesPerProvider = 1: the
\* result is the failure "All providers failed" with provider = primaryName and
\* failoverUsed, every record is a failure, and there is one record for the
\* primary plus one per chain entry that resolves and is not the primary.
C3_FullExhaustion ==
    \A c \in Calls :
        LET s == call[c]
        IN  (/\ Done(s)
             /\ MaxRetriesOf(s.cfg) = 1
             /\ \A n \in Names : AlwaysFailed(n))
            => /\ ~s.result.success
               /\ s.result.error = "All providers failed"
               /\ s.result.provider = s.primaryName
               /\ s.result.failoverUsed
               /\ \A i \in 1..Len(s.result.failoverAttempts) :
                     ~s.result.failoverAttempts[i].success
               /\ Len(s.result.failoverAttempts) = 1 + Cardinality(Usable(s))

\* Exhaustion over a chain of two entries, one tried and one skipped
C3_Witness ==
    LET s == call[1]
    IN  /\ Done(s) /\ MaxRetriesOf(s.cfg) = 1
        /\ \A n \in Names : AlwaysFailed(n)
        /\ Len(s.cfg.chain) = 2 /\ Cardinality(Usable(s)) = 1
        /\ Len(s.result.failoverAttempts) = 2

----------------------------------------------------------------------------
(* C4 *)

\* C4: if the first send of the primary succeeds, the result is that success
\* with provider = primaryName, failoverUsed = FALSE and exactly one record,
\* the primary's success, whatever the chain holds; nothing is resolved.
C4_NoFailoverPath ==
    \A c \in Calls :
        LET s == call[c]
        IN  (Done(s) /\ FirstSucceeded(s.primaryName))
            => /\ s.result.success
               /\ s.result.provider = s.primaryName
               /\ ~s.result.failoverUsed
               /\ s.result.failoverAttempts =
                     <<[mailer |-> s.primaryName, success |-> TRUE, error |-> UNDEF]>>
               /\ OpIdx(s, "resolve") = {}

\* The primary succeeds at once before a chain that names the primary itself
\* and a backup
C4_Witness ==
    LET s == call[1]
    IN  /\ Done(s) /\ FirstSucceeded(s.primaryName)
        /\ Len(s.cfg.chain) = 2
        /\ s.cfg.chain[1] = s.primaryName /\ s.cfg.chain[2] # s.primaryName
        /\ MaxRetriesOf(s.cfg) = 2

----------------------------------------------------------------------------
(* C5 *)

\* The transport fails its first k-1 sends and succeeds on the k-th
RecoversAt(name, k) ==
    /\ Len(script[name]) >= k
    /\ script[name][k]
    /\ \A j \in 1..(k - 1) : ~script[name][j]

\* C5: a transport that fails k-1 sends and succeeds on the k-th, with
\* k <= maxRetriesPerProvider, ends the call: the result is its success, its
\* records are exactly the last k of failoverAttempts (k-1 failures, then the
\* success), and nothing is resolved or sent after the success.
C5_RetryThenRecover ==
    \A c \in Calls :
        LET s == call[c]
            att == s.result.failoverAttempts
            len == Len(att)
        IN  \A n \in Names : \A k \in 1..MaxRetriesOf(s.cfg) :
              (Done(s) /\ s.sent[n] > 0 /\ RecoversAt(n, k))
              => /\ s.result.success
                 /\ s.result.provider = n
                 /\ len >= k
                 /\ \A i \in 1..len :
                       (att[i].mailer = n) <=> (i > len - k)
                 /\ \A i \in (len - k + 1)..(len - 1) : ~att[i].success
                 /\ att[len].success
                 /\ s.sent[n] = k
                 /\ \A i \in 1..Len(s.trace) :
                       (s.trace[i].op = "sendDone" /\ s.trace[i].n = 1)
                       => (i + 1 = Len(s.trace) /\ s.trace[i + 1].op = "return")

\* A backup recovers on its second send
C5_Witness ==
    LET s == call[1]
    IN  /\ Done(s) /\ Len(s.cfg.chain) = 2
        /\ s.cfg.chain[1] # s.primaryName
        /\ RecoversAt(s.cfg.chain[1], 2)
        /\ s.sent[s.cfg.chain[1]] = 2
        /\ s.result.success

----------------------------------------------------------------------------
(* C6 *)

\* The positions whose send succeeded
Winners(s) ==
    {s.trace[i].pos : i \in {j \in OpIdx(s, "sendDone") : s.trace[j].n = 1}}

\* C6: provider is primaryName if the primary succeeded, the name of the chain
\* entry whose send succeeded if a backup succeeded, and primaryName if no send
\* succeeded; on success it is the mailer of the last attempt record.
C6_Provider ==
    \A c \in Calls :
        LET s == call[c]
            att == s.result.failoverAttempts
        IN  Done(s) =>
              /\ \A p \in Winners(s) : s.result.provider = NameAt(s, p)
              /\ Winners(s) = {} => s.result.provider = s.primaryName
              /\ s.result.success <=> Winners(s) # {}
              /\ s.result.success =>
                    Len(att) > 0 /\ s.result.provider = att[Len(att)].mailer

\* The second chain entry succeeds after the primary and the first entry failed
C6_Witness ==
    LET s == call[1]
    IN  /\ Done(s) /\ Winners(s) = {2}
        /\ s.cfg.chain[1] # s.cfg.chain[2]
        /\ 1 \in Attempted(s)
        /\ s.result.provider = s.cfg.chain[2]

----------------------------------------------------------------------------
(* C7 *)

\* C7: failoverUsed is TRUE exactly when a chain transport was sent to during
\* the call (stated for the valid policies, maxRetriesPerProvider >= 1).
C7_FailoverUsedIffBackupSent ==
    \A c \in Calls :
        LET s == call[c]
        IN  (Done(s) /\ MaxRetriesOf(s.cfg) >= 1)
            => (s.result.failoverUsed <=> \E p \in Attempted(s) : p >= 1)

----------------------------------------------------------------------------
(* C8 *)

\* Places of the history where onFailover was called for chain position p
EventsFor(s, p) == {i \in OpIdx(s, "onFailover") : s.trace[i].pos = p}

\* C8: with an onFailover callback and maxRetriesPerProvider >= 1, the callback
\* is called once for every chain position that is sent to and for no other:
\* not for the primary, not for a skipped entry, not again on a retry; each
\* call comes after every send of the earlier positions and before every send
\* of its own; a finished call has one event less than it has segments.
C8_OncePerTransition ==
    \A c \in Calls :
        LET s == call[c]
            calls == OpIdx(s, "onFailover")
            sends == OpIdx(s, "send")
            attempted == Attempted(s)
        IN  (s.cfg.onFailover # "none" /\ MaxRetriesOf(s.cfg) >= 1)
            => /\ \A i \in calls : \A j \in sends :
                     /\ j < i => s.trace[j].pos < s.trace[i].pos
                     /\ j > i => s.trace[j].pos >= s.trace[i].pos
               /\ \A p \in 0..Len(s.cfg.chain) :
                     LET n == Cardinality(EventsFor(s, p))
                     IN  /\ n <= 1
                         /\ (p >= 1 /\ p \in attempted) => n = 1
                         /\ (Done(s) /\ p \notin attempted) => n = 0
                         /\ p = 0 => n = 0
               /\ Len(s.events) = Cardinality(calls)
               /\ Done(s) => Len(s.events) = Cardinality(attempted) - 1

\* Two transitions with retries, over a chain of two backups
C8_Witness ==
    LET s == call[1]
    IN  /\ Done(s) /\ s.cfg.onFailover # "none"
        /\ MaxRetriesOf(s.cfg) = 2
        /\ Attempted(s) = {0, 1, 2}
        /\ Len(s.attempts) = 6
        /\ Len(s.events) = 2

\* A skipped entry between the primary and a backup that is tried
C8_WitnessSkip ==
    LET s == call[1]
    IN  /\ Done(s) /\ s.cfg.onFailover # "none"
        /\ MaxRetriesOf(s.cfg) = 2
        /\ Attempted(s) = {0, 2}
        /\ \E i \in OpIdx(s, "resolve") : s.trace[i].n = 0
        /\ Len(s.events) = 1

----------------------------------------------------------------------------
(* C9 *)

\* The place in the history of the j-th onFailover call
EventAt(s, j) ==
    CHOOSE i \in OpIdx(s, "onFailover") :
        Cardinality({k \in OpIdx(s, "onFailover") : k <= i}) = j

\* Number of attempt records pushed before place i of the history
RecordsBefore(s, i) == Cardinality({k \in OpIdx(s, "sendDone") : k < i})

\* C9: every event handed to onFailover names, as failedMailer, the mailer of
\* the last attempt record at that moment, which exists and is a failure; its
\* error is that record's error, or "Unknown error" if the record has none;
\* nextMailer is the chain entry about to be tried; attemptIndex is the number
\* of records at that moment, which for the first event is maxRetriesPerProvider.
C9_EventData ==
    \A c \in Calls :
        LET s == call[c]
            sends == OpIdx(s, "send")
        IN  \A j \in 1..Len(s.events) :
              LET e == s.events[j]
                  i == EventAt(s, j)
                  cnt == RecordsBefore(s, i)
              IN  /\ cnt >= 1
                  /\ e.attemptIndex = cnt
                  /\ ~s.attempts[cnt].success
                  /\ e.failedMailer = s.attempts[cnt].mailer
                  /\ e.error = IF s.attempts[cnt].error = UNDEF THEN "Unknown error"
                               ELSE s.attempts[cnt].error
                  /\ e.nextMailer = s.cfg.chain[s.trace[i].pos]
                  /\ \A k \in sends :
                        (k > i /\ \A l \in sends : l > i => k <= l)
                        => s.trace[k].name = e.nextMailer
                  /\ j = 1 => /\ e.attemptIndex = MaxRetriesOf(s.cfg)
                              /\ e.failedMailer = s.primaryName

\* Two events: after two failed primary sends without an error text, and
\* after a backup that threw an Error with an empty message
C9_Witness ==
    LET s == call[1]
    IN  /\ Len(s.events) = 2
        /\ s.events[1].attemptIndex = 2 /\ s.events[1].error = "Unknown error"
        /\ s.events[2].attemptIndex = 4 /\ s.events[2].error = ""
        /\ s.events[2].failedMailer # s.primaryName

----------------------------------------------------------------------------
(* Two runs against the same transports and resolver: call 1 with an         *)
(* onFailover callback that throws each time, then call 2 without callback    *)

WithoutCallback(cfg) ==
    [cfg EXCEPT !.onFailover = "none", !.has = @ \ {"onFailover"}]

InitIsolation ==
    /\ InitCollaborators
    /\ \E p \in PrimaryNames, cfg \in FailoverConfigs :
          /\ WellFormedConfig(cfg)
          /\ cfg.onFailover = "throws"
          /\ call = [c \in Calls |-> IF c = 1 THEN NewCall(p, cfg)
                                     ELSE NewCall(p, WithoutCallback(cfg))]

\* The second run starts when the first has finished; each transport answers
\* its k-th send of the second run as it answered the k-th of the first
InTurn(c) == c = 2 => call[1].pc = "done"

NextIsolation ==
    \E c \in Calls :
        \/ InTurn(c) /\ Call(c)
        \/ InTurn(c) /\ SendSucceeds(c)
        \/ InTurn(c) /\ SendFails(c)
        \/ InTurn(c) /\ RetryDelayElapses(c)
        \/ InTurn(c) /\ FailoverDelayElapses(c)
        \/ InTurn(c) /\ ChainStep(c)
        \/ InTurn(c) /\ ChainExhausted(c)

SpecIsolation == InitIsolation /\ [][NextIsolation]_vars

----------------------------------------------------------------------------
(* C10 *)

\* C10: the run whose onFailover throws on every call completes, and returns
\* what the run without onFailover returns against the same transports and
\* resolver: the same success, error, messageId, provider, failoverUsed and
\* the same attempt records.
C10_CallbackIsolation ==
    /\ ~call[1].threw
    /\ call[1].pc # "done" => ENABLED Step(1)
    /\ (Done(call[1]) /\ Done(call[2]))
       => /\ call[1].result = call[2].result
          /\ call[1].attempts = call[2].attempts
          /\ call[1].sent = call[2].sent

\* Both runs finished, the callback threw at two transitions of the first
C10_Witness ==
    /\ Done(call[1]) /\ Done(call[2])
    /\ call[1].cfg.onFailover = "throws" /\ call[2].cfg.onFailover = "none"
    /\ Len(call[1].events) = 2 /\ call[2].events = <<>>
    /\ call[1].result.success
    /\ call[1].result.provider = call[1].cfg.chain[2]

----------------------------------------------------------------------------
(* Two runs against the same transports and resolver: call 1 over a chain    *)
(* that holds a name X for which getProvider throws, then call 2 over the    *)
(* same chain with the entries X removed                                      *)

Without(chain, X) == SelectSeq(chain, LAMBDA n : n # X)

InitSkip ==
    /\ AtRest
    /\ script = [n \in Names |-> <<>>]
    /\ style = [n \in Names |-> UnsetStyle]
    /\ \E p \in PrimaryNames, cfg \in FailoverConfigs, X \in Names :
          /\ WellFormedConfig(cfg)
          /\ X # p
          /\ \E i \in 1..Len(cfg.chain) : cfg.chain[i] = X
          /\ resolver = [n \in Names |-> IF n = X THEN "throws" ELSE "unknown"]
          /\ call = [c \in Calls |->
                        IF c = 1 THEN NewCall(p, cfg)
                        ELSE NewCall(p, [cfg EXCEPT !.chain = Without(@, X)])]

SpecSkip == InitSkip /\ [][NextIsolation]_vars

----------------------------------------------------------------------------
(* C11 *)

\* The names for which getProvider throws
Unresolvable == {n \in Names : resolver[n] = "throws"}

\* The history without the failed getProvider calls and without positions
Visible(s) ==
    LET kept == SelectSeq(s.trace, LAMBDA e : ~(e.op = "resolve" /\ e.n = 0))
    IN  [i \in 1..Len(kept) |-> [op |-> kept[i].op, name |-> kept[i].name, n |-> kept[i].n]]

\* C11: a chain entry X for which getProvider throws is skipped silently: no
\* attempt record, no onFailover event, no send and no delay is made for X, and
\* the run does what the run over the chain without X does: the same sends,
\* events, delays, attempt records and result; if the run succeeds through a
\* later entry Y, provider = Y.
C11_ResolutionFailureSkip ==
    /\ \A c \in Calls :
          LET s == call[c]
          IN  /\ \A i \in 1..Len(s.attempts) : s.attempts[i].mailer \notin Unresolvable
              /\ \A j \in 1..Len(s.events) : s.events[j].nextMailer \notin Unresolvable
              /\ \A i \in 1..Len(s.trace) :
                    (s.trace[i].op \in {"send", "sendDone", "delay", "onFailover"}
                     /\ s.trace[i].pos >= 1)
                    => s.cfg.chain[s.trace[i].pos] \notin Unresolvable
              /\ (Done(s) /\ s.result.success /\ s.result.failoverUsed)
                 => /\ s.result.provider \notin Unresolvable
                    /\ resolver[s.result.provider] = "ok"
    /\ (Done(call[1]) /\ Done(call[2]))
       => /\ call[1].result = call[2].result
          /\ call[1].attempts = call[2].attempts
          /\ call[1].events = call[2].events
          /\ Visible(call[1]) = Visible(call[2])

\* X comes first, Y second; the primary fails twice, then Y succeeds after a
\* callback and a failover delay
C11_Witness ==
    LET s == call[1]
    IN  /\ Done(s) /\ Done(call[2])
        /\ Len(s.cfg.chain) = 2 /\ Len(call[2].cfg.chain) = 1
        /\ resolver[s.cfg.chain[1]] = "throws"
        /\ s.result.success /\ s.result.provider = s.cfg.chain[2]
        /\ Len(s.events) = 1 /\ FailoverDelayOf(s.cfg) > 0
        /\ Len(s.attempts) = 3

----------------------------------------------------------------------------
(* C12 *)

\* C12: chain entries equal to the primary's name are always skipped, wherever
\* and however often they appear: getProvider is never called with the primary's
\* name, no event has nextMailer equal to it, nothing is sent or waited for at
\* such a position, and the primary's records are an initial segment of
\* failoverAttempts.
C12_PrimarySkip ==
    LET s == call[1]
    IN  /\ \A i \in 1..Len(s.trace) :
              /\ s.trace[i].op = "resolve" => s.trace[i].name # s.primaryName
              /\ s.trace[i].pos >= 1 /\ s.trace[i].op # "return"
                 => s.cfg.chain[s.trace[i].pos] # s.primaryName
        /\ \A j \in 1..Len(s.events) : s.events[j].nextMailer # s.primaryName
        /\ \A i, j \in 1..Len(s.attempts) :
              (i < j /\ s.attempts[j].mailer = s.primaryName)
              => s.attempts[i].mailer = s.primaryName

\* The primary is named second in the chain, after a backup that failed
C12_Witness ==
    LET s == call[1]
    IN  /\ Done(s) /\ ~s.result.success
        /\ Len(s.cfg.chain) = 2
        /\ s.cfg.chain[1] # s.primaryName /\ s.cfg.chain[2] = s.primaryName
        /\ Attempted(s) = {0, 1}
        /\ Len(s.attempts) = 2

----------------------------------------------------------------------------
(* Two runs with the same configuration: in call 1 a transport that fails    *)
(* rejects with an Error of message m, in call 2 it resolves, on the same     *)
(* sends, to { success: false, error: m }                                     *)

\* provider.send rejects with an Error
SendThrows(c) ==
    /\ SendFails(c)
    /\ style'[call[c].curName].throws

\* provider.send resolves to { success: false, error: m }, m being the message
\* the transport throws in the other run
SendReportsFailure(c) ==
    LET s == call[c]
        name == s.curName
        k == s.sent[name]
    IN  /\ s.pc = "send"
        /\ FALSE \in SendOutcomes(name, k)
        /\ script' = [script EXCEPT ![name] = Extend(@, k, FALSE)]
        /\ \E st \in StylesOf(name) :
              /\ st.throws
              /\ style' = [style EXCEPT ![name] = st]
              /\ call' = [call EXCEPT ![c] = SendResolved(s, FailResponse(st.error))]
        /\ UNCHANGED resolver
        /\ UNCHANGED <<fake, queueManager>>

InitThrowVsReturn ==
    /\ InitCollaborators
    /\ \E p \in PrimaryNames, cfg \in FailoverConfigs :
          /\ WellFormedConfig(cfg)
          /\ call = [c \in Calls |-> NewCall(p, cfg)]

NextThrowVsReturn ==
    \E c \in Calls :
        \/ InTurn(c) /\ Call(c)
        \/ InTurn(c) /\ SendSucceeds(c)
        \/ c = 1 /\ SendThrows(c)
        \/ c = 2 /\ InTurn(c) /\ SendReportsFailure(c)
        \/ InTurn(c) /\ RetryDelayElapses(c)
        \/ InTurn(c) /\ FailoverDelayElapses(c)
        \/ InTurn(c) /\ ChainStep(c)
        \/ InTurn(c) /\ ChainExhausted(c)

SpecThrowVsReturn == InitThrowVsReturn /\ [][NextThrowVsReturn]_vars

----------------------------------------------------------------------------
(* C13 *)

\* C13: a send that throws an exception with message m has the effect of a
\* send that returns { success: false, error: m }, for every string m, the
\* empty string included: the two runs end with the same attempt records, the
\* same events and the same result.
C13_ThrowEqualsFailure ==
    (Done(call[1]) /\ Done(call[2]))
    => /\ call[1].attempts = call[2].attempts
       /\ call[1].events = call[2].events
       /\ call[1].result = call[2].result

\* What does hold: the two runs agree whenever no transport failed with an
\* empty message, and always agree on everything but the error texts of the
\* records and events
C13_NonEmptyMessages ==
    (Done(call[1]) /\ Done(call[2]))
    => /\ (\A n \in Names : style[n].error # "")
          => /\ call[1].attempts = call[2].attempts
             /\ call[1].events = call[2].events
             /\ call[1].result = call[2].result
       /\ Visible(call[1]) = Visible(call[2])
       /\ call[1].result.success = call[2].result.success
       /\ call[1].result.error = call[2].result.error
       /\ call[1].result.provider = call[2].result.provider

----------------------------------------------------------------------------
(* C14 *)

\* The send invocations of the call, in the order they were made
Sends(s) == Ops(s, "send")

\* The i-th of the send invocations is the Nth(sends, i)-th to its transport
Nth(sends, i) == Cardinality({j \in 1..i : sends[j].name = sends[i].name})

\* Whether the transport let the i-th send invocation succeed
SendOk(sends, i) == script[sends[i].name][Nth(sends, i)]

\* The error text a failed send of the transport leaves in its record
RecordedError(name) ==
    IF style[name].throws \/ Truthy(style[name].error) THEN style[name].error ELSE UNDEF

\* C14: failoverAttempts is in chronological order: its i-th record is the
\* record of the i-th send invocation of the call (same transport, same
\* success, that send's error), there is one record per send invocation that
\* has settled, and none is reordered or dropped.
C14_Chronological ==
    LET s == call[1]
        sends == Sends(s)
    IN  /\ Len(s.attempts) = Len(sends) - (IF s.pc = "send" THEN 1 ELSE 0)
        /\ \A i \in 1..Len(s.attempts) :
              /\ s.attempts[i].mailer = sends[i].name
              /\ s.attempts[i].success = SendOk(sends, i)
              /\ s.attempts[i].error =
                    IF SendOk(sends, i) THEN UNDEF ELSE RecordedError(sends[i].name)
        /\ Done(s) => s.result.failoverAttempts = s.attempts

\* Two transports, three sends: the primary fails twice, the backup succeeds
C14_Witness ==
    LET s == call[1]
    IN  /\ Done(s) /\ s.result.success
        /\ Len(s.result.failoverAttempts) = 3
        /\ s.result.failoverAttempts[1].mailer = s.primaryName
        /\ s.result.failoverAttempts[2].mailer = s.primaryName
        /\ s.result.failoverAttempts[3].mailer # s.primaryName
        /\ s.result.failoverAttempts[3].success

----------------------------------------------------------------------------
(* One call under a valid retry policy: maxRetriesPerProvider, given or by   *)
(* default, is at least 1                                                     *)

InitValidPolicy ==
    /\ Init
    /\ MaxRetriesOf(call[1].cfg) >= 1

SpecValidPolicy == InitValidPolicy /\ [][Next]_vars

----------------------------------------------------------------------------
(* C15 *)

Reverse(seq) == [i \in 1..Len(seq) |-> seq[Len(seq) + 1 - i]]

\* C15 as stated: reversing the returned failoverAttempts (records compared by
\* transport name, success and error) never gives the actual attempt sequence,
\* unless only one attempt was made.
C15_ReversalDiffers ==
    LET s == call[1]
    IN  (Done(s) /\ MaxRetriesOf(s.cfg) >= 1 /\ Len(s.result.failoverAttempts) # 1)
        => Reverse(s.result.failoverAttempts) # s.result.failoverAttempts

\* C15, amended: reversing the returned failoverAttempts never gives the actual
\* attempt sequence when more than one attempt was made and the call succeeded
\* or sent to a backup transport. (Failed attempts of the primary alone can
\* leave equal records.)
C15_ReversalDiffersAcrossTransports ==
    LET s == call[1]
    IN  (/\ Done(s)
         /\ Len(s.result.failoverAttempts) > 1
         /\ s.result.success \/ Attempted(s) # {0})
        => Reverse(s.result.failoverAttempts) # s.result.failoverAttempts

\* Exhaustion over two transports with two failed attempts each
C15_Witness ==
    LET s == call[1]
    IN  /\ Done(s) /\ ~s.result.success
        /\ Attempted(s) = {0, 1}
        /\ Len(s.result.failoverAttempts) = 4

----------------------------------------------------------------------------
(* C16 *)

\* Number of send invocations made for position pos
SendsAt(s, pos) == Cardinality({i \in OpIdx(s, "send") : s.trace[i].pos = pos})

\* maxRetriesPerProvider * (1 + number of resolvable non-primary chain entries)
SendBound(s) == MaxRetriesOf(s.cfg) * (1 + Cardinality(Usable(s)))

\* C16: with maxRetriesPerProvider >= 1, the number of send invocations, and so
\* the number of attempt records, is at most maxRetriesPerProvider * (1 + number
\* of resolvable non-primary chain entries); no position is sent to more than
\* maxRetriesPerProvider times; the bound is reached when every attempt fails.
C16_SendBound ==
    LET s == call[1]
        sent == Len(Sends(s))
        bound == SendBound(s)
    IN  MaxRetriesOf(s.cfg) >= 1
        => /\ sent <= bound
           /\ Len(s.attempts) <= bound
           /\ \A pos \in 0..Len(s.cfg.chain) : SendsAt(s, pos) <= MaxRetriesOf(s.cfg)
           /\ (Done(s) /\ \A i \in 1..Len(s.attempts) : ~s.attempts[i].success)
              => /\ sent = bound
                 /\ Len(s.result.failoverAttempts) = bound

\* Two attempts per transport, two usable backups, every send fails: 6 sends
C16_Witness ==
    LET s == call[1]
    IN  /\ Done(s) /\ ~s.result.success
        /\ MaxRetriesOf(s.cfg) = 2
        /\ Cardinality(Usable(s)) = 2
        /\ Len(s.result.failoverAttempts) = 6

----------------------------------------------------------------------------
(* C17 *)

\* The MailResponse the transport gave to the i-th send invocation; a thrown
\* Error counts as { success: false, error: message }
OutcomeOf(sends, i) ==
    IF SendOk(sends, i) THEN OkResponse(sends[i].name)
    ELSE FailResponse(style[sends[i].name].error)

LastOutcome(s) == LET sends == Sends(s) IN OutcomeOf(sends, Len(sends))

\* C17 as stated: the result is the last outcome observed plus provenance:
\* success, error and messageId are those of the outcome of the last send
\* invocation, with provider, failoverUsed and failoverAttempts added.
C17_LastOutcome ==
    LET s == call[1]
    IN  (Done(s) /\ MaxRetriesOf(s.cfg) >= 1)
        => LET last == LastOutcome(s)
           IN  /\ s.result.success = last.success
               /\ s.result.error = last.error
               /\ s.result.messageId = last.messageId
               /\ s.result.failoverAttempts = s.attempts

\* C17, amended: success and messageId of the result are those of the outcome
\* of the last send invocation; a successful result carries that outcome's
\* messageId unchanged and no error; a failed result carries the fixed error
\* "All providers failed" in place of the last outcome's error; provider,
\* failoverUsed and failoverAttempts are added.
C17_LastOutcomeOrExhaustion ==
    LET s == call[1]
    IN  (Done(s) /\ MaxRetriesOf(s.cfg) >= 1)
        => LET last == LastOutcome(s)
           IN  /\ s.result.success = last.success
               /\ s.result.messageId = last.messageId
               /\ s.result.success
                  => /\ s.result.error = last.error
                     /\ s.result.messageId = MessageIdOf(s.result.provider)
               /\ ~s.result.success => s.result.error = "All providers failed"
               /\ s.result.provider \in Names
               /\ s.result.failoverUsed \in BOOLEAN
               /\ s.result.failoverAttempts = s.attempts

\* Exhaustion after a backup whose last send failed with the text "down"
C17_Witness ==
    LET s == call[1]
    IN  /\ Done(s) /\ ~s.result.success
        /\ Len(Sends(s)) >= 2
        /\ ~LastOutcome(s).success /\ LastOutcome(s).error = "down"
        /\ s.result.error = "All providers failed"

\* A backup's messageId is passed on
C17_WitnessSuccess ==
    LET s == call[1]
    IN  /\ Done(s) /\ s.result.success /\ s.result.failoverUsed
        /\ s.result.messageId = LastOutcome(s).messageId
        /\ s.result.messageId # UNDEF

----------------------------------------------------------------------------
(* C18 *)

\* The history entry before entry i is of operation op at the same position
After(s, i, op) ==
    /\ i > 1
    /\ s.trace[i - 1].op = op
    /\ s.trace[i - 1].pos = s.trace[i].pos

\* Entry i is a wait of the given kind
IsDelay(s, i, kind) == s.trace[i].op = "delay" /\ s.trace[i].name = kind

----------------------------------------------------------------------------
(* C19 *)

\* C19: with an empty chain the call is a send through the primary alone: only
\* the primary is sent to, at most maxRetriesPerProvider times, getProvider and
\* onFailover are never invoked, no failoverDelay is spent, every attempt
\* record names the primary, and so does the result.
C19_EmptyChain ==
    LET s == call[1]
    IN  Len(s.cfg.chain) = 0
        => /\ \A i \in 1..Len(s.trace) :
                 /\ s.trace[i].op \in {"send", "sendDone", "delay", "return"}
                 /\ s.trace[i].op # "return" => s.trace[i].pos = 0
                 /\ s.trace[i].op = "send" => s.trace[i].name = s.primaryName
                 /\ s.trace[i].op = "delay" => s.trace[i].name = "retry"
           /\ Len(Sends(s)) <= (IF MaxRetriesOf(s.cfg) >= 1 THEN MaxRetriesOf(s.cfg) ELSE 0)
           /\ s.events = <<>>
           /\ \A n \in Names : resolver[n] = "unknown"
           /\ s.pc # "failoverDelay"
           /\ \A i \in 1..Len(s.attempts) : s.attempts[i].mailer = s.primaryName
           /\ Done(s) => s.result.provider = s.primaryName

\* Empty chain, callback and failoverDelay configured, two attempts allowed:
\* the primary fails twice and the call ends
C19_Witness ==
    LET s == call[1]
    IN  /\ Done(s) /\ ~s.result.success
        /\ Len(s.cfg.chain) = 0
        /\ s.cfg.onFailover # "none" /\ FailoverDelayOf(s.cfg) > 0
        /\ MaxRetriesOf(s.cfg) = 2
        /\ Len(s.result.failoverAttempts) = 2

----------------------------------------------------------------------------
(* Two calls in flight at once on one FailoverManager, with two primaries    *)
(* and the same configuration; their steps interleave at every await. The    *)
(* transports fail with the error "down", all by returning or all by throwing *)

InitConcurrent ==
    /\ AtRest
    /\ script = [n \in Names |-> <<>>]
    /\ resolver = [n \in Names |-> "unknown"]
    /\ \E st \in {f \in FailStyles : f.error = "down"} : style = [n \in Names |-> st]
    /\ \E p \in PrimaryNames, q \in Names \ PrimaryNames, cfg \in FailoverConfigs :
          /\ WellFormedConfig(cfg)
          /\ MaxRetriesOf(cfg) >= 1
          /\ cfg.onFailover # "throws"
          /\ (cfg.retryDelay > 0) = (cfg.failoverDelay > 0)
          /\ call = [c \in Calls |-> IF c = 1 THEN NewCall(p, cfg) ELSE NewCall(q, cfg)]

SpecConcurrent == InitConcurrent /\ [][Next]_vars

\* The call's next piece when it runs alone against transports and a resolver
\* that answer as script, style and resolver say
StepAlone(s) ==
    CASE s.pc = "new" -> BeginTry(s, s.primaryName)
      [] s.pc = "send" ->
            LET name == s.curName
                st == style[name]
            IN  IF script[name][s.sent[name]] THEN SendResolved(s, OkResponse(name))
                ELSE IF st.throws THEN SendRejected(s, st.error)
                ELSE SendResolved(s, FailResponse(st.error))
      [] s.pc = "retryDelay" -> InvokeSend(s)
      [] s.pc = "failoverDelay" -> BeginTry(s, s.cfg.chain[s.idx])
      [] s.pc = "chain" ->
            IF s.idx > Len(s.cfg.chain) THEN Return(s, ExhaustedResult(s))
            ELSE LET chainName == s.cfg.chain[s.idx]
                 IN  IF SkipsPrimary(s, chainName) THEN [s EXCEPT !.idx = @ + 1]
                     ELSE IF resolver[chainName] = "throws" THEN ResolveFailed(s, chainName)
                     ELSE Resolved(s, chainName)
      [] OTHER -> s

RECURSIVE RunAlone(_)
RunAlone(s) == IF s.pc = "done" THEN s ELSE RunAlone(StepAlone(s))

----------------------------------------------------------------------------
(* C20 *)

\* C20: two calls that run at once, interleaved at every await, share no
\* state: at every moment each call's attempt list holds the records of its
\* own settled sends in its own order, and each call ends with the records,
\* the events and the result it ends with when it runs alone against
\* transports that answer the same.
C20_Independent ==
    \A c \in Calls :
        LET s == call[c]
            sends == Sends(s)
        IN  /\ Len(s.attempts) = Len(sends) - (IF s.pc = "send" THEN 1 ELSE 0)
            /\ \A i \in 1..Len(s.attempts) :
                  /\ s.attempts[i].mailer = sends[i].name
                  /\ s.attempts[i].success = SendOk(sends, i)
            /\ Done(s)
               => LET alone == RunAlone(NewCall(s.primaryName, s.cfg))
                  IN  /\ s.result = alone.result
                      /\ s.attempts = alone.attempts
                      /\ s.events = alone.events
                      /\ s.trace = alone.trace

\* Call 2 has started and has a send in flight when call 1 returns after a
\* failover; call 2 returns later with records of its own
C20_Witness ==
    /\ Done(call[1]) /\ Done(call[2])
    /\ call[1].primaryName # call[2].primaryName
    /\ Len(call[1].result.failoverAttempts) = 3
    /\ Len(call[2].result.failoverAttempts) = 2
    /\ call[1].result.failoverAttempts[1].mailer = call[1].primaryName
    /\ call[2].result.failoverAttempts[1].mailer = call[2].primaryName

----------------------------------------------------------------------------
(* One call for any of the messages, the callback not throwing and the two   *)
(* delays set together or not at all                                          *)

InitMessage ==
    /\ InitCollaborators
    /\ \E p \in PrimaryNames, cfg \in FailoverConfigs, m \in Messages :
          /\ WellFormedConfig(cfg)
          /\ cfg.onFailover # "throws"
          /\ (cfg.retryDelay > 0) = (cfg.failoverDelay > 0)
          /\ call = [c \in Calls |->
                        IF c = 1 THEN [NewCall(p, cfg) EXCEPT !.options = m, !.received = m]
                        ELSE Off(p, cfg)]

SpecMessage == InitMessage /\ [][Next]_vars

----------------------------------------------------------------------------
(* C21 *)

\* C21: the message sendWithFailover received is what every send invocation
\* is handed, on the primary, on retries and on chain transports, one message
\* per send invocation, and the orchestrator's own parameter keeps the value it
\* received.
C21_MessageUnmodified ==
    LET s == call[1]
    IN  /\ s.options = s.received
        /\ Len(s.handed) = Len(Sends(s))
        /\ \A i \in 1..Len(s.handed) : s.handed[i] = s.received

\* The message b@example.com / Welcome went to the primary twice and, after a
\* failover, to a backup twice
C21_Witness ==
    LET s == call[1]
    IN  /\ Done(s)
        /\ s.received = [to |-> "b@example.com", subject |-> "Welcome"]
        /\ Len(s.handed) = 4
        /\ Attempted(s) = {0, 1}

----------------------------------------------------------------------------
(* MailFake (src/testing/MailFake.ts): send, simulateFailures, resetFailures *)
(* and clear, called in any order on one instance.  queue, later and at      *)
(* touch queuedMessages only and are left out with it.                        *)

\* Number of calls made on the MailFake, and the largest count simulated
MaxFakeCalls == 5
MaxFailures == 2

\* count of simulateFailures(count)
FailureCounts == (-1)..MaxFailures

\* The messages sent through the fake
FakeMessages == {m \in Messages : m.to = "a@example.com"}

\* `Simulated failure (${failuresSent}/${failureCount})`
SimulatedFailure(i, n) == <<"Simulated failure", i, n>>

\* `fake-${Date.now()}-${this.sentMessages.length}`, without the clock reading
FakeMessageId(n) == <<"fake", n>>

Called(f, op, arg, response) ==
    [f EXCEPT !.calls = Append(@, [op |-> op, arg |-> arg, response |-> response])]

\* Mutant: the number of failures already simulated is kept
SimulateFailuresKeepsSent(f, count) ==
    Called([f EXCEPT !.failureCount = count], "simulateFailures", count, UNDEF)

\* simulateFailures(count)
SimulateFailures(f, count) ==
    Called([f EXCEPT !.failureCount = count, !.failuresSent = 0],
           "simulateFailures", count, UNDEF)

\* resetFailures()
ResetFailures(f) ==
    Called([f EXCEPT !.failureCount = 0, !.failuresSent = 0], "resetFailures", UNDEF, UNDEF)

\* send(options)
FakeSend(f, options) ==
    IF f.failureCount > 0 /\ f.failuresSent < f.failureCount
    THEN Called([f EXCEPT !.failuresSent = @ + 1], "send", options,
                [success |-> FALSE, messageId |-> UNDEF,
                 error |-> SimulatedFailure(f.failuresSent + 1, f.failureCount)])
    ELSE Called([f EXCEPT !.sentMessages = Append(@, options)], "send", options,
                [success |-> TRUE, messageId |-> FakeMessageId(Len(f.sentMessages) + 1),
                 error |-> UNDEF])

\* sentCount()
SentCount(f) == Len(f.sentMessages)

\* clear()
Clear(f) ==
    Called([f EXCEPT !.sentMessages = <<>>, !.failureCount = 0, !.failuresSent = 0],
           "clear", UNDEF, UNDEF)

\* The FailoverManager's calls and collaborators take no part
FakeOnly == UNCHANGED <<call, script, style, resolver, queueManager>>

CallSimulateFailures ==
    /\ Len(fake.calls) < MaxFakeCalls
    /\ \E count \in FailureCounts : fake' = SimulateFailures(fake, count)
    /\ FakeOnly

CallResetFailures ==
    /\ Len(fake.calls) < MaxFakeCalls
    /\ fake' = ResetFailures(fake)
    /\ FakeOnly

CallSend ==
    /\ Len(fake.calls) < MaxFakeCalls
    /\ \E options \in FakeMessages : fake' = FakeSend(fake, options)
    /\ FakeOnly

CallClear ==
    /\ Len(fake.calls) < MaxFakeCalls
    /\ fake' = Clear(fake)
    /\ FakeOnly

\* A configuration for the call slots that stay unused
NoFailover ==
    [chain |-> <<>>, has |-> {}, maxRetriesPerProvider |-> 0, retryDelay |-> 0,
     failoverDelay |-> 0, onFailover |-> "none"]

InitMailFake ==
    /\ InitCollaborators
    /\ call = [c \in Calls |-> Off("sendgrid", NoFailover)]

NextMailFake ==
    \/ CallSimulateFailures
    \/ CallResetFailures
    \/ CallSend
    \/ CallClear

SpecMailFake == InitMailFake /\ [][NextMailFake]_vars

----------------------------------------------------------------------------
(* C22 *)

\* Places of the history that are calls of op
FakeCalls(op) == {i \in 1..Len(fake.calls) : fake.calls[i].op = op}

\* The last call before place i that starts or ends a simulation, 0 if none
LastSwitch(i) ==
    LET sw == {j \in 1..(i - 1) :
                 fake.calls[j].op \in {"simulateFailures", "resetFailures", "clear"}}
    IN  IF sw = {} THEN 0 ELSE CHOOSE j \in sw : \A k \in sw : k <= j

\* The count of the simulation in force at place i, 0 if none is
InForce(i) ==
    LET j == LastSwitch(i)
    IN  IF j > 0 /\ fake.calls[j].op = "simulateFailures" /\ fake.calls[j].arg > 0
        THEN fake.calls[j].arg ELSE 0

\* The send at place i is the SendNo(i)-th since the simulation began
SendNo(i) == Cardinality({k \in FakeCalls("send") : LastSwitch(i) < k /\ k <= i})

\* The last clear() so far, 0 if none
LastClear == IF FakeCalls("clear") = {} THEN 0
             ELSE CHOOSE j \in FakeCalls("clear") : \A k \in FakeCalls("clear") : k <= j

\* The messages of the sends that succeeded since the last clear(), in order
Delivered ==
    LET ok == SelectSeq(SubSeq(fake.calls, LastClear + 1, Len(fake.calls)),
                        LAMBDA e : e.op = "send" /\ e.response.success)
    IN  [i \in 1..Len(ok) |-> ok[i].arg]

\* C22: after simulateFailures(n), n > 0, exactly the next n sends return
\* success = false with the error "Simulated failure (i/n)" and store nothing,
\* every send after them succeeds and stores its message; resetFailures() and
\* clear() end the simulation at once, a new simulateFailures starts counting
\* from zero; sentCount() is the number of sends that succeeded (since the
\* stored messages were last cleared), and the stored messages are theirs.
C22_SimulatedFailures ==
    /\ \A i \in FakeCalls("send") :
          LET r == fake.calls[i].response
          IN  IF InForce(i) > 0 /\ SendNo(i) <= InForce(i)
              THEN /\ ~r.success
                   /\ r.error = SimulatedFailure(SendNo(i), InForce(i))
              ELSE r.success /\ r.error = UNDEF
    /\ SentCount(fake) = Len(Delivered)
    /\ fake.sentMessages = Delivered

\* simulateFailures(2), a failed send, simulateFailures(1), a failed send,
\* then a send that is stored
C22_Witness ==
    /\ Len(fake.calls) = 5
    /\ fake.calls[1].op = "simulateFailures" /\ fake.calls[1].arg = 2
    /\ fake.calls[2].op = "send" /\ ~fake.calls[2].response.success
    /\ fake.calls[3].op = "simulateFailures" /\ fake.calls[3].arg = 1
    /\ fake.calls[4].op = "send"
    /\ fake.calls[4].response.error = SimulatedFailure(1, 1)
    /\ fake.calls[5].op = "send" /\ fake.calls[5].response.success
    /\ SentCount(fake) = 1

----------------------------------------------------------------------------
(* C23 *)

\* C23: once a send has succeeded the call does nothing more to its
\* collaborators: the success is followed by the return and by nothing else.
\* getProvider is called only after the primary has failed
\* maxRetriesPerProvider times, at most once per chain position, in chain
\* order, for the name at that position, and never for a position after the
\* one that succeeded.
C23_StopsAtSuccess ==
    LET s == call[1]
        tr == s.trace
        resolves == OpIdx(s, "resolve")
    IN  /\ \A i \in OpIdx(s, "sendDone") :
              tr[i].n = 1 => /\ Done(s) /\ s.result.success
                             /\ i = Len(tr) - 1
                             /\ tr[Len(tr)].op = "return"
        /\ \A i \in OpIdx(s, "return") : i = Len(tr)
        /\ \A i \in resolves :
              /\ tr[i].pos >= 1 /\ tr[i].name = s.cfg.chain[tr[i].pos]
              /\ Cardinality({j \in OpIdx(s, "sendDone") :
                                 j < i /\ tr[j].pos = 0 /\ tr[j].n = 0})
                    = MaxRetriesOf(s.cfg)
              /\ \A j \in OpIdx(s, "sendDone") : j < i => tr[j].n = 0
              /\ \A j \in resolves : j < i => tr[j].pos < tr[i].pos
              /\ \A w \in Winners(s) : tr[i].pos <= w

\* The first backup succeeds on its second send; a second backup is listed
\* and never resolved
C23_Witness ==
    LET s == call[1]
    IN  /\ Done(s) /\ s.result.success
        /\ Len(s.cfg.chain) = 2
        /\ Winners(s) = {1}
        /\ Len(s.attempts) = 4
        /\ Cardinality(OpIdx(s, "resolve")) = 1
        /\ resolver[s.cfg.chain[2]] = "unknown"

----------------------------------------------------------------------------
(* C24 *)

\* C24: under a valid retry policy the events of one call form a chain: the
\* first event's failedMailer is the primary, each later event's failedMailer
\* is the nextMailer of the event before it, attemptIndex grows strictly, and
\* in the attempt records the record at 0-based index attemptIndex, once it is
\* there (in the returned list always), names the event's nextMailer, while
\* the record before it is a failure of the event's failedMailer.
C24_EventChain ==
    LET s == call[1]
        ev == s.events
    IN  /\ Len(ev) >= 1 => ev[1].failedMailer = s.primaryName
        /\ \A j \in 2..Len(ev) :
              /\ ev[j].failedMailer = ev[j - 1].nextMailer
              /\ ev[j].attemptIndex > ev[j - 1].attemptIndex
        /\ \A j \in 1..Len(ev) :
              LET n == ev[j].attemptIndex
              IN  /\ n >= 1 /\ n <= Len(s.attempts)
                  /\ ~s.attempts[n].success
                  /\ s.attempts[n].mailer = ev[j].failedMailer
                  /\ Len(s.attempts) > n => s.attempts[n + 1].mailer = ev[j].nextMailer
                  /\ Done(s) => /\ Len(s.result.failoverAttempts) > n
                                /\ s.result.failoverAttempts[n + 1].mailer = ev[j].nextMailer

\* Two transitions over two different backups, two attempts each
C24_Witness ==
    LET s == call[1]
    IN  /\ Done(s)
        /\ Len(s.events) = 2
        /\ s.events[1].nextMailer # s.events[2].nextMailer
        /\ s.events[2].failedMailer = s.events[1].nextMailer
        /\ s.events[1].attemptIndex = 2 /\ s.events[2].attemptIndex = 4

----------------------------------------------------------------------------
(* C25 *)

\* Every awaited promise of a call settles and every timer fires: a step of
\* the call that can be taken is eventually taken.  Transports, resolver and
\* callback all return or throw within the action that invokes them.
Fairness == WF_vars(Next)

\* Every policy, with both timers armed or neither
InitLive ==
    /\ Init
    /\ (RetryDelayOf(call[1].cfg) > 0) = (FailoverDelayOf(call[1].cfg) > 0)

SpecLive == InitLive /\ [][Next]_vars /\ Fairness

\* The call has returned a result: a success, or the exhaustion failure
Returned(s) ==
    /\ Done(s)
    /\ \/ s.result.success
       \/ s.result = ExhaustedResult(s)

\* C25: when every send, every resolveTransport call and every onFailover call
\* returns or throws in finite time, the call eventually returns a result,
\* success or exhaustion, for every chain and every maxRetriesPerProvider.
C25_Terminates == <>Returned(call[1])

\* Exhaustion after the longest run: every position tried, every retry used
C25_Witness ==
    LET s == call[1]
    IN  /\ Returned(s)
        /\ ~s.result.success
        /\ Len(s.cfg.chain) = MaxChain
        /\ Len(s.attempts) = MaxRetries * (1 + MaxChain)

----------------------------------------------------------------------------
(* C26 *)

\* Mutant: the awaited send is raced against a timer that resumes the loop
AwaitsWithTimeout(s) ==
    Log([s EXCEPT !.pc = "retryDelay"], "hang", s.curName, s.attempt)

\* await provider.send(options) on a promise that never settles: the call
\* stays suspended at the await.  The trace entry marks the invocation.
AwaitsForever(s) ==
    Log([s EXCEPT !.pc = "hung"], "hang", s.curName, s.attempt)

\* The invocation in flight is one that never completes
SendHangs(c) ==
    /\ call[c].pc = "send"
    /\ call' = [call EXCEPT ![c] = AwaitsForever(call[c])]
    /\ UNCHANGED <<script, style, resolver>>
    /\ UNCHANGED <<fake, queueManager>>

NextHang ==
    \E c \in Calls :
        \/ Step(c)
        \/ SendHangs(c)

SpecHang == InitLive /\ [][NextHang]_vars

\* The call's sends so far include one that never completes
Stalled(s) == \E i \in 1..Len(s.trace) : s.trace[i].op = "hang"

\* C26: when a send invocation never completes, the call never returns, and
\* after that invocation started there is no retry, no onFailover event, no
\* delay, no resolveTransport call and no send on another transport: the
\* invocation is the last thing the call did, and the call takes no step.
C26_NoWatchdog ==
    LET s == call[1]
        n == Len(s.trace)
    IN  Stalled(s) =>
          /\ ~Done(s)
          /\ s.trace[n].op = "hang"
          /\ \A i \in 1..(n - 1) : s.trace[i].op # "hang"
          /\ n >= 2
          /\ s.trace[n - 1].op = "send"
          /\ s.trace[n - 1].name = s.trace[n].name
          /\ ~ENABLED Step(1)
          /\ ~ENABLED SendHangs(1)

\* The second attempt on a backup hangs, after the primary was exhausted
C26_Witness ==
    LET s == call[1]
    IN  /\ Stalled(s)
        /\ s.idx >= 1
        /\ s.curName # s.primaryName
        /\ s.attempt = 1
        /\ Len(s.events) = 1

----------------------------------------------------------------------------
(* QueueManager *)

\* Operations and closes begun on one QueueManager
MaxQueueOps == 4

\* new BullMQDriver(config), new BullDriver(config), createSyncDriver(): a
\* driver that did not exist before; this.driver = it; this.initialized = true
DriverCreated(q) ==
    [q EXCEPT !.instances = @ + 1, !.made = @ + 1, !.driver = q.instances + 1,
              !.initialized = TRUE]

\* initialize(), as far as it runs before its first await
Initialize(q, o) ==
    IF q.initialized THEN [q EXCEPT !.at[o] = "resume"]
    ELSE CASE q.kind \in {"bullmq", "bull"} -> [q EXCEPT !.at[o] = "importing"]
           [] q.kind = "sync" -> [DriverCreated(q) EXCEPT !.at[o] = "resume"]
           [] OTHER -> [q EXCEPT !.at[o] = "idle", !.got[o] = 0]

\* getDriver(): if (!this.driver) await this.initialize(); return this.driver!
GetDriver(q, o) ==
    IF q.driver = 0 THEN Initialize(q, o)
    ELSE [q EXCEPT !.got[o] = q.driver]

QueueOnly == UNCHANGED <<call, script, style, resolver, fake>>

\* Caller o calls queue(), later(), at() or process()
StartOperation(o) ==
    /\ queueManager.at[o] = "idle"
    /\ queueManager.ops < MaxQueueOps
    /\ \E op \in QueueOperations :
          queueManager' = GetDriver([queueManager EXCEPT !.ops = @ + 1, !.doing[o] = op], o)
    /\ QueueOnly

\* The dynamic import of the driver module resolves; the driver is created
\* and assigned, and initialize() returns
ImportResolves(o) ==
    /\ queueManager.at[o] = "importing"
    /\ queueManager' = [DriverCreated(queueManager) EXCEPT !.at[o] = "resume"]
    /\ QueueOnly

\* getDriver resumes after await this.initialize(): return this.driver!
GetDriverResumes(o) ==
    /\ queueManager.at[o] = "resume"
    /\ queueManager' = [queueManager EXCEPT !.got[o] = queueManager.driver, !.at[o] = "idle"]
    /\ QueueOnly

\* Caller o calls close(): if (this.driver) { await this.driver.close(); ... }
StartClose(o) ==
    /\ queueManager.at[o] = "idle"
    /\ queueManager.ops < MaxQueueOps
    /\ queueManager' =
          [queueManager EXCEPT !.ops = @ + 1, !.doing[o] = "close",
                               !.at[o] = IF queueManager.driver # 0 THEN "closing" ELSE "idle"]
    /\ QueueOnly

\* driver.close() resolved: this.driver = null; this.initialized = false
CloseResolves(o) ==
    /\ queueManager.at[o] = "closing"
    /\ queueManager' = [queueManager EXCEPT !.driver = 0, !.initialized = FALSE,
                                            !.made = 0, !.at[o] = "idle"]
    /\ QueueOnly

InitQueueManager ==
    /\ script = [n \in Names |-> <<>>]
    /\ style = [n \in Names |-> UnsetStyle]
    /\ resolver = [n \in Names |-> "unknown"]
    /\ call = [c \in Calls |-> Off("sendgrid", NoFailover)]
    /\ fake = NewMailFake
    /\ \E kind \in DriverKinds : queueManager = NewQueueManager(kind)

NextQueueManager ==
    \E o \in Callers :
        \/ StartOperation(o)
        \/ ImportResolves(o)
        \/ GetDriverResumes(o)
        \/ StartClose(o)
        \/ CloseResolves(o)

SpecQueueManager == InitQueueManager /\ [][NextQueueManager]_vars

----------------------------------------------------------------------------
(* C27 *)

\* C27: between construction (or the last close()) and the next close(), at
\* most one driver instance is created, whatever operations are called and
\* also when they are called concurrently before the first initialization has
\* finished.
C27_InitializesOnce == queueManager.made <= 1

\* With the sync driver initialize() has no await and the claim holds; with
\* the other drivers it holds as long as no operation starts while another
\* one is importing
C27_InitializesOnceSync == queueManager.kind = "sync" => queueManager.made <= 1

\* After a close() the next operation got a driver that is not the one before
C27_WitnessFresh ==
    /\ queueManager.kind = "sync"
    /\ queueManager.driver = 2
    /\ queueManager.made = 1
    /\ \E o \in Callers : queueManager.got[o] = 2

----------------------------------------------------------------------------
(* C28 *)

\* The position (0 the primary, k the k-th chain entry) each record belongs
\* to, in the order of the records
RecordPositions(s) == [i \in 1..Len(Ops(s, "sendDone")) |-> Ops(s, "sendDone")[i].pos]

\* C28: under a valid retry policy the records form contiguous segments, one
\* per attempted position, the primary first and then the attempted chain
\* entries in chain order; every segment but the last has exactly
\* maxRetriesPerProvider records, all failed; the last has between 1 and
\* maxRetriesPerProvider; only the last record can be a success, and it is one
\* exactly when the call returned success.  The returned list is that list.
C28_Segments ==
    LET s == call[1]
        at == RecordPositions(s)
        n == Len(s.attempts)
        max == MaxRetriesOf(s.cfg)
        size(p) == Cardinality({i \in 1..n : at[i] = p})
    IN  /\ Len(at) = n
        /\ n >= 1 => at[1] = 0
        /\ \A i \in 1..n :
              /\ s.attempts[i].mailer = NameAt(s, at[i])
              /\ at[i] >= 1 => s.cfg.chain[at[i]] # s.primaryName
              /\ i < n => at[i] <= at[i + 1]
              /\ i < n => ~s.attempts[i].success
              /\ size(at[i]) >= 1 /\ size(at[i]) <= max
              /\ at[i] # at[n] => size(at[i]) = max
        /\ (n >= 1 /\ s.attempts[n].success) <=> (Done(s) /\ s.result.success)
        /\ Done(s) => s.result.failoverAttempts = s.attempts

\* Three segments: two full ones and a success on the second try of the last
C28_Witness ==
    LET s == call[1]
        at == RecordPositions(s)
    IN  /\ Done(s) /\ s.result.success
        /\ MaxRetriesOf(s.cfg) = 2
        /\ Len(s.attempts) = 6
        /\ at = <<0, 0, 1, 1, 2, 2>>

----------------------------------------------------------------------------
(* C29 *)

\* C29: with maxRetriesPerProvider 0 or negative no send is ever invoked, the
\* attempt list stays empty, onFailover never fires, resolveTransport is still
\* called, once and in order, for each chain entry that differs from
\* primaryName, and the result is the failure 'All providers failed' with
\* provider = primaryName and failoverUsed = true.
C29_NoAttempts ==
    LET s == call[1]
        resolves == Ops(s, "resolve")
        others == SelectSeq(s.cfg.chain, LAMBDA name : name # s.primaryName)
    IN  MaxRetriesOf(s.cfg) <= 0 =>
          /\ Sends(s) = <<>>
          /\ \A name \in Names : s.sent[name] = 0
          /\ s.attempts = <<>>
          /\ s.events = <<>>
          /\ Ops(s, "onFailover") = <<>>
          /\ Len(resolves) <= Len(others)
          /\ \A i \in 1..Len(resolves) : resolves[i].name = others[i]
          /\ Done(s) =>
                /\ Len(resolves) = Len(others)
                /\ ~s.threw
                /\ s.result = [success |-> FALSE, messageId |-> UNDEF,
                               error |-> "All providers failed",
                               provider |-> s.primaryName, failoverUsed |-> TRUE,
                               failoverAttempts |-> <<>>]

\* A negative retry count, a callback supplied, two backups resolved
C29_Witness ==
    LET s == call[1]
    IN  /\ Done(s)
        /\ MaxRetriesOf(s.cfg) < 0
        /\ s.cfg.onFailover # "none"
        /\ Len(Ops(s, "resolve")) = 2
        /\ s.attempts = <<>>

----------------------------------------------------------------------------
(* C30 *)

\* Each transport name owns at most one contiguous run of records, of at most
\* maxRetriesPerProvider records
OneSegmentPerName(s) ==
    LET n == Len(s.attempts)
    IN  /\ \A i, j \in 1..n :
              (i < j /\ s.attempts[i].mailer = s.attempts[j].mailer)
                  => \A k \in i..j : s.attempts[k].mailer = s.attempts[i].mailer
        /\ \A name \in Names :
              Cardinality({i \in 1..n : s.attempts[i].mailer = name}) <= MaxRetriesOf(s.cfg)

\* No name occurs twice in the chain
DistinctEntries(chain) ==
    \A i, j \in 1..Len(chain) : chain[i] = chain[j] => i = j

\* C30: a transport name whose retries were exhausted is not attempted again
\* later in the same call: each name owns at most one contiguous segment of at
\* most maxRetriesPerProvider records, also when the chain names the same
\* backup more than once.
C30_NoRedundantRetry == OneSegmentPerName(call[1])

\* It is so for the primary whatever the chain, and for every name when the
\* chain names no backup twice
C30_NoRedundantRetryDistinct ==
    LET s == call[1]
    IN  /\ Cardinality({i \in 1..Len(s.attempts) : s.attempts[i].mailer = s.primaryName})
              <= MaxRetriesOf(s.cfg)
        /\ \A i \in 1..Len(s.attempts) :
              s.attempts[i].mailer = s.primaryName => RecordPositions(s)[i] = 0
        /\ DistinctEntries(s.cfg.chain) => OneSegmentPerName(s)

====
